---- MODULE Spec2Model ----
(***************************************************************************)
(* Om Engineers appointment backend: OTP issuance and verification         *)
(* (models/otp.py, services/otp_service.py) and the token service          *)
(* (models/customer_auth.py, services/auth_service.py,                     *)
(* models/customer_db.py).                                                 *)
(*                                                                         *)
(* Every service call runs to completion against the tables; time is in    *)
(* minutes.  Strings that the code inspects character by character (phone  *)
(* numbers) are sequences of one-character strings.                        *)
(***************************************************************************)
EXTENDS Integers, Sequences, FiniteSets, TLC

VARIABLES
    otps,       \* rows of the otps table
    issued,     \* per phone, the codes of the latest OTP (cur) and the one before (prev)
    customers,  \* rows of the customers table, in primary-key order
    auths,      \* rows of the customer_auth table
    nextToken,  \* number of the next token generate_auth_token returns
    now,        \* datetime.utcnow(), in minutes
    ticks,      \* how often the clock has advanced
    last,       \* arguments and result of the last call
    appointments, \* rows of the appointments table
    inflight    \* per request in progress, its position and what it has read

vars == <<otps, issued, customers, auths, nextToken, now, ticks, last, appointments,
          inflight>>

(***************************************************************************)
(* Bounds of the model                                                     *)
(***************************************************************************)
MaxTicks == 2
MaxCustomers == 2
MaxTokens == 2
MaxSources == 2
MaxAppointments == 2
MaxDuration == 10
MaxLifecycle == 1
MaxRequests == 2

(***************************************************************************)
(* Program constants                                                       *)
(***************************************************************************)
OTP_EXPIRY_MINUTES == 10
MAX_ATTEMPTS == 5
PHONE_LEN == 10
TOKEN_HOURS_VALID == 24 * 30
AUTH_KEY_LEN == 16
TEST_OTP == "123456"
TEST_PHONE == <<"9","1","2","3","1","8","7","5","6","2">>

(***************************************************************************)
(* Outcome messages                                                        *)
(***************************************************************************)
MsgNotFound == "OTP not found or already verified"
MsgExpired == "OTP has expired"
MsgTooMany == "Too many invalid attempts"
MsgVerified == "OTP verified successfully"
MsgInvalid == "Invalid OTP code"
MsgBadPhone == "Invalid phone number format"
MsgSent == "OTP sent successfully"
MsgSendFailed == "Failed to send OTP"
MsgCleaned == "Cleaned up expired OTPs"
MsgAuthError == "Authentication error"

(***************************************************************************)
(* Inputs                                                                  *)
(***************************************************************************)
PhoneA == <<"9","8","7","6","5","4","3","2","1","0">>
BadPhone == <<"1","2","3","4","5">>
PhoneInputs ==
    { PhoneA,
      <<"+","9","1">> \o PhoneA,
      <<"9","1">> \o PhoneA,
      BadPhone }
Codes == {"111111", "222222", TEST_OTP}
Phones == {PhoneA, TEST_PHONE}
GeneratedCodes == {"111111", "222222"}
OtpTickSteps == {1, OTP_EXPIRY_MINUTES}
AuthTickSteps == {1, TOKEN_HOURS_VALID * 60}

(***************************************************************************)
(* Phone number normalisation                                              *)
(***************************************************************************)
Digits == {"0","1","2","3","4","5","6","7","8","9"}

IsDigit(c) == c \in Digits

StripNonDigits(s) == SelectSeq(s, IsDigit)

StartsWith(s, p) == Len(s) >= Len(p) /\ SubSeq(s, 1, Len(p)) = p

\* mutant: a leading 91 is dropped whatever the length
normalize_phone_number_Any91(phone) ==
    LET d == StripNonDigits(phone)
    IN  IF StartsWith(d, <<"9","1">>) THEN SubSeq(d, 3, Len(d)) ELSE d

normalize_phone_number(phone) ==
    LET d == StripNonDigits(phone)
    IN  IF StartsWith(d, <<"9","1">>) /\ Len(d) = 12 THEN SubSeq(d, 3, Len(d))
        ELSE IF StartsWith(d, <<"+","9","1">>) /\ Len(d) = 13 THEN SubSeq(d, 4, Len(d))
        ELSE d

\* mutant: longer numbers pass
validate_phone_number_AtLeast10(phone) ==
    LET n == normalize_phone_number(phone)
    IN  Len(n) >= PHONE_LEN /\ \A i \in 1..Len(n) : IsDigit(n[i])

validate_phone_number(phone) ==
    LET n == normalize_phone_number(phone)
    IN  Len(n) = PHONE_LEN /\ \A i \in 1..Len(n) : IsDigit(n[i])

(***************************************************************************)
(* The otps table                                                          *)
(***************************************************************************)
NoRec ==
    [id |-> 0, phone_number |-> <<>>, otp_code |-> "", created_at |-> 0,
     expires_at |-> 0, is_verified |-> FALSE, attempts |-> 0]

NewOTP(id, phone, code, t) ==
    [id |-> id, phone_number |-> phone, otp_code |-> code, created_at |-> t,
     expires_at |-> t + OTP_EXPIRY_MINUTES, is_verified |-> FALSE, attempts |-> 0]

\* mutant: the delete spares the unverified rows
PriorOtps_OnlyVerified(store, phone) ==
    {r \in store : r.phone_number = phone /\ r.is_verified}

\* rows that create_new_otp deletes before inserting the new one
PriorOtps(store, phone) == {r \in store : r.phone_number = phone}

\* primary key the table gives an inserted row (SQLite rowid: largest + 1)
NextId(store) ==
    IF store = {} THEN 1
    ELSE (CHOOSE i \in {r.id : r \in store} : \A r \in store : r.id <= i) + 1

\* mutant: the new row is inserted without deleting the prior ones
create_new_otp_NoDelete(store, phone, code, t) ==
    store \cup {NewOTP(NextId(store), phone, code, t)}

create_new_otp(store, phone, code, t) ==
    LET kept == store \ PriorOtps(store, phone)
    IN  kept \cup {NewOTP(NextId(kept), phone, code, t)}

\* mutant: the query does not filter on is_verified
Unverified_AnyRow(store, phone) ==
    {r \in store : r.phone_number = phone}

\* rows the query of verify_otp matches; .first() returns one of them
Unverified(store, phone) ==
    {r \in store : r.phone_number = phone /\ ~r.is_verified}

\* mutant: one minute of grace after expires_at
is_expired_Grace(r, t) == t > r.expires_at + 1

is_expired(r, t) == t > r.expires_at

\* mutant: the attempt is not counted
Attempted_NotCounted(r) == r

\* otp_record.attempts += 1
Attempted(r) == [r EXCEPT !.attempts = r.attempts + 1]

\* mutant: the attempts limit is tested before the increment
OTP_verify_LimitBeforeIncrement(store, r, code, t) ==
    IF is_expired(r, t)
    THEN [ok |-> FALSE, msg |-> MsgExpired, store |-> store]
    ELSE IF r.attempts > MAX_ATTEMPTS
    THEN [ok |-> FALSE, msg |-> MsgTooMany, store |-> store]
    ELSE IF r.otp_code = code
    THEN [ok |-> TRUE, msg |-> MsgVerified,
          store |-> (store \ {r}) \cup
                    {[r EXCEPT !.attempts = r.attempts + 1, !.is_verified = TRUE]}]
    ELSE [ok |-> FALSE, msg |-> MsgInvalid,
          store |-> (store \ {r}) \cup {[r EXCEPT !.attempts = r.attempts + 1]}]

\* outcome of OTP.verify_otp on the row r that the query returned; the
\* attempts-exceeded return does not commit, so its increment is discarded
OTP_verify(store, r, code, t) ==
    IF is_expired(r, t)
    THEN [ok |-> FALSE, msg |-> MsgExpired, store |-> store]
    ELSE IF Attempted(r).attempts > MAX_ATTEMPTS
    THEN [ok |-> FALSE, msg |-> MsgTooMany, store |-> store]
    ELSE IF r.otp_code = code
    THEN [ok |-> TRUE, msg |-> MsgVerified,
          store |-> (store \ {r}) \cup
                    {[Attempted(r) EXCEPT !.is_verified = TRUE]}]
    ELSE [ok |-> FALSE, msg |-> MsgInvalid,
          store |-> (store \ {r}) \cup {Attempted(r)}]

ExpiredOtps(store, t) == {r \in store : r.expires_at < t}

(***************************************************************************)
(* Result of the last call                                                 *)
(***************************************************************************)
NoCustomer == 0
Null == -1
EmptyToken == 0
NoKey == [len |-> 0, id |-> 0]
NoAuthorization == [scheme |-> "", token |-> EmptyToken]
NoRequest ==
    [authorization |-> NoAuthorization, x_auth_token |-> EmptyToken,
     x_auth_key |-> NoKey, token |-> EmptyToken, auth_key |-> NoKey]


\* datetime.time(hour, minute)
Time(h, m) == [hour |-> h, minute |-> m]

\* a date or time field of a form: left empty, not in the expected format,
\* or the text of a value
MissingField == [kind |-> "missing", value |-> 0]
MalformedField == [kind |-> "malformed", value |-> 0]
DateField(d) == [kind |-> "date", value |-> d]
TimeField(h, m) == [kind |-> "time", value |-> h * 60 + m]

NoCustomerRow ==
    [id |-> 0, name |-> <<>>, email |-> "", phone |-> <<>>, address |-> ""]

NoApt ==
    [id |-> 0, appointment_date |-> 0, appointment_time |-> Time(0, 0),
     status |-> "", technician_notes |-> <<>>, completed_at |-> Null,
     cancelled_at |-> Null]

Blank ==
    [op |-> "none", phone |-> <<>>, code |-> "", ok |-> FALSE, msg |-> "",
     rec |-> NoRec, at |-> 0, customer |-> NoCustomer, token |-> Null,
     key |-> NoKey, old |-> Null, req |-> NoRequest,
     apt |-> 0, before |-> NoApt, action |-> "", new_date |-> MissingField,
     new_time |-> MissingField, reason |-> <<>>, called |-> "",
     date |-> MissingField, duration |-> <<>>, slots |-> <<>>,
     slots_data |-> <<>>, name |-> <<>>, email |-> "", old_row |-> NoCustomerRow,
     out |-> <<>>, dispatched |-> FALSE]

\* the requests that can be in progress at the same time, and a request
\* that has not started
Requests == 1..MaxRequests
Idle ==
    [pc |-> "idle", op |-> "", phone |-> <<>>, code |-> "", rec |-> NoRec,
     ok |-> FALSE, msg |-> "", deleted |-> {}]

(***************************************************************************)
(* Initial state: empty tables                                             *)
(***************************************************************************)
Init ==
    /\ otps = {}
    /\ issued = [n \in Phones |-> [prev |-> "", cur |-> ""]]
    /\ customers = <<>>
    /\ auths = {}
    /\ nextToken = 1
    /\ now = 0
    /\ ticks = 0
    /\ last = Blank
    /\ appointments = {}
    /\ inflight = [p \in Requests |-> Idle]

AuthUnchanged == UNCHANGED <<customers, auths, nextToken, appointments, inflight>>

(***************************************************************************)
(* OTPService.send_otp: code is the value generate_otp draws, sms the      *)
(* answer of the SMS gateway                                               *)
(***************************************************************************)
SendOtp(opname, phone, code, sms) ==
    LET n == normalize_phone_number(phone)
        res == [Blank EXCEPT !.op = opname, !.phone = n, !.at = now]
    IN  IF ~validate_phone_number(phone)
        THEN /\ last' = [res EXCEPT !.msg = MsgBadPhone]
             /\ UNCHANGED <<otps, issued>>
        ELSE LET c == IF n = TEST_PHONE THEN TEST_OTP ELSE code
                    sent == n = TEST_PHONE \/ sms
                IN  /\ otps' = create_new_otp(otps, n, c, now)
                    /\ issued' = [issued EXCEPT ![n] = [prev |-> issued[n].cur, cur |-> c]]
                    /\ last' = [res EXCEPT !.ok = sent, !.code = c,
                                           !.dispatched = n # TEST_PHONE,
                                           !.msg = IF sent THEN MsgSent ELSE MsgSendFailed,
                                           !.rec = NewOTP(NextId(otps \ PriorOtps(otps, n)), n, c, now)]

send_otp ==
    /\ \E phone \in PhoneInputs, code \in GeneratedCodes, sms \in BOOLEAN :
          SendOtp("send_otp", phone, code, sms)
    /\ AuthUnchanged
    /\ UNCHANGED <<now, ticks>>

resend_otp ==
    /\ \E phone \in PhoneInputs, code \in GeneratedCodes, sms \in BOOLEAN :
          SendOtp("resend_otp", phone, code, sms)
    /\ AuthUnchanged
    /\ UNCHANGED <<now, ticks>>

(***************************************************************************)
(* OTPService.verify_otp                                                   *)
(***************************************************************************)
verify_otp ==
    /\ \E phone \in PhoneInputs, code \in Codes :
          LET n == normalize_phone_number(phone)
              res == [Blank EXCEPT !.op = "verify_otp", !.phone = n, !.code = code,
                                   !.at = now]
          IN  IF Unverified(otps, n) = {}
              THEN /\ last' = [res EXCEPT !.msg = MsgNotFound]
                   /\ otps' = otps
              ELSE \E r \in Unverified(otps, n) :
                      LET out == OTP_verify(otps, r, code, now)
                      IN  /\ otps' = out.store
                          /\ last' = [res EXCEPT !.ok = out.ok, !.msg = out.msg,
                                                 !.rec = r]
    /\ AuthUnchanged
    /\ UNCHANGED <<issued, now, ticks>>

(***************************************************************************)
(* OTPService.cleanup_expired_otps                                         *)
(***************************************************************************)
cleanup_expired_otps ==
    /\ otps' = otps \ ExpiredOtps(otps, now)
    /\ last' = [Blank EXCEPT !.op = "cleanup_expired_otps", !.ok = TRUE,
                             !.msg = MsgCleaned, !.at = now]
    /\ AuthUnchanged
    /\ UNCHANGED <<issued, now, ticks>>

(***************************************************************************)
(* datetime.utcnow() advances between calls                                *)
(***************************************************************************)
Tick(steps) ==
    /\ ticks < MaxTicks
    /\ \E d \in steps : now' = now + d
    /\ ticks' = ticks + 1
    /\ UNCHANGED <<otps, issued, customers, auths, nextToken, last, appointments,
                   inflight>>

TickOTP == Tick(OtpTickSteps)

NextOTP == send_otp \/ resend_otp \/ verify_otp \/ cleanup_expired_otps \/ TickOTP

SpecOTP == Init /\ [][NextOTP]_vars

(***************************************************************************)
(* Properties of OTP issuance and verification                             *)
(***************************************************************************)
\* a step that is a service call (the clock stands still during a call)
IsCall == ticks' = ticks

IsIssue(op) == op \in {"send_otp", "resend_otp"}

\* C1: once a verify_otp has succeeded for an OTP row, every later
\* verify_otp for that phone fails (with whatever code, the right one
\* included) until a new OTP is issued for the phone: a call succeeds only
\* on an unverified row with that code and leaves the phone without an
\* unverified row; a verified row stays verified until an issuance or
\* cleanup deletes it; and only an issuance brings an unverified row.
C1_OneShot ==
    [][/\ \A r \in otps :
             r.is_verified =>
               /\ (IsCall /\ last'.op = "verify_otp" /\ last'.phone = r.phone_number)
                     => (~last'.ok /\ r \in otps')
               /\ \/ r \in otps'
                  \/ IsCall /\ IsIssue(last'.op) /\ last'.phone = r.phone_number
                  \/ IsCall /\ last'.op = "cleanup_expired_otps" /\ r.expires_at < now
       /\ (IsCall /\ last'.op = "verify_otp" /\ last'.ok)
             => /\ \E r \in otps : /\ r.phone_number = last'.phone
                                   /\ ~r.is_verified
                                   /\ r.otp_code = last'.code
                /\ Unverified(otps', last'.phone) = {}
       /\ \A r \in otps' :
             ~r.is_verified =>
                \/ \E q \in otps : /\ ~q.is_verified
                                   /\ q.id = r.id
                                   /\ q.phone_number = r.phone_number
                                   /\ q.otp_code = r.otp_code
                \/ IsCall /\ IsIssue(last'.op) /\ last'.phone = r.phone_number]_vars

\* C1 witness: the right code is presented again after it was accepted
C1_Witness ==
    /\ last.op = "verify_otp"
    /\ ~last.ok
    /\ \E r \in otps : /\ r.phone_number = last.phone
                        /\ r.is_verified
                        /\ r.otp_code = last.code
                        /\ last.at <= r.expires_at

\* C2: a verify_otp that finds an unexpired row with 5 recorded attempts
\* fails with the attempts-exceeded outcome, also with the right code, and
\* leaves the row as it is, so that the same holds for every later call
\* until a new OTP replaces the row.
C2_AttemptsExceeded ==
    (/\ last.op = "verify_otp"
     /\ last.rec # NoRec
     /\ last.rec.attempts >= MAX_ATTEMPTS
     /\ last.at <= last.rec.expires_at)
    => (~last.ok /\ last.msg = MsgTooMany /\ last.rec \in otps)

\* C2 witness: the sixth attempt carries the right code
C2_Witness ==
    /\ last.op = "verify_otp"
    /\ last.rec # NoRec
    /\ last.rec.attempts = MAX_ATTEMPTS
    /\ last.code = last.rec.otp_code
    /\ last.msg = MsgTooMany

\* C3: a verify_otp called strictly after the expires_at of the row it
\* finds fails with the expiry outcome whatever the code, and the row is
\* left unverified.
C3_ExpiredFails ==
    (/\ last.op = "verify_otp"
     /\ last.rec # NoRec
     /\ last.at > last.rec.expires_at)
    => (~last.ok /\ last.msg = MsgExpired /\ last.rec \in otps
        /\ \A r \in otps : r.id = last.rec.id => ~r.is_verified)

\* C3 witness: the right code arrives one minute late
C3_Witness ==
    /\ last.op = "verify_otp"
    /\ last.rec # NoRec
    /\ last.at = last.rec.expires_at + 1
    /\ last.code = last.rec.otp_code
    /\ last.msg = MsgExpired

\* C4: every phone number has at most one unverified OTP row.
C4_OneLiveOtp ==
    \A r \in otps : Cardinality(Unverified(otps, r.phone_number)) <= 1

\* C4 witness: an OTP was issued for a phone that had one already
C4_Witness ==
    /\ IsIssue(last.op)
    /\ last.ok
    /\ last.phone \in Phones
    /\ issued[last.phone].prev # ""
    /\ Cardinality(Unverified(otps, last.phone)) = 1

\* the case of C5: the code of OTP1 is presented after OTP2, which has
\* another code, was issued for the same phone
C5_Case ==
    /\ last.op = "verify_otp"
    /\ last.phone \in Phones
    /\ issued[last.phone].prev # ""
    /\ issued[last.phone].prev # issued[last.phone].cur
    /\ last.code = issued[last.phone].prev

\* C5 as stated: after OTP2 was issued, verify_otp with the code of OTP1
\* fails with the 'not found' outcome.
C5_NotFound == C5_Case => (~last.ok /\ last.msg = MsgNotFound)

\* C5 amended: verify_otp with the code of OTP1 fails; the row of OTP1 is
\* gone, and the outcome is decided by the row of OTP2: 'invalid code'
\* while it is unverified, unexpired and has fewer than 5 recorded
\* attempts, 'expired' or 'too many attempts' otherwise, and 'not found'
\* only when no unverified row is left for the phone.
C5_OldCodeFails ==
    C5_Case =>
        /\ ~last.ok
        /\ \A r \in otps : r.phone_number = last.phone
                               => r.otp_code = issued[last.phone].cur
        /\ IF last.rec = NoRec THEN last.msg = MsgNotFound
           ELSE /\ last.rec.otp_code = issued[last.phone].cur
                /\ last.msg = IF last.at > last.rec.expires_at THEN MsgExpired
                              ELSE IF last.rec.attempts >= MAX_ATTEMPTS THEN MsgTooMany
                              ELSE MsgInvalid

\* C5 witness: the code of OTP1 is refused as an invalid code for OTP2
C5_Witness == C5_Case /\ last.msg = MsgInvalid

\* the row of the OTP that the last verify_otp call looked up, as it is now
RowNow(id) == CHOOSE r \in otps : r.id = id

VerifyCountedCase ==
    /\ last.op = "verify_otp"
    /\ last.rec # NoRec
    /\ ~last.rec.is_verified
    /\ last.at <= last.rec.expires_at
    /\ last.rec.attempts < MAX_ATTEMPTS

\* C16: for an unverified, unexpired OTP record with fewer than 5 attempts,
\* a verify_otp call increases the stored attempts by exactly one, both
\* when the code matches (success, record verified) and when it does not
\* (failure with the invalid-code outcome).
C16_AttemptCounted ==
    VerifyCountedCase =>
        /\ \E r \in otps : r.id = last.rec.id
        /\ RowNow(last.rec.id).attempts = last.rec.attempts + 1
        /\ last.code = last.rec.otp_code
              => (last.ok /\ last.msg = MsgVerified
                  /\ RowNow(last.rec.id).is_verified)
        /\ last.code # last.rec.otp_code
              => (~last.ok /\ last.msg = MsgInvalid
                  /\ ~RowNow(last.rec.id).is_verified)

\* a matching code on a record that already has a failed attempt
C16_Witness ==
    /\ VerifyCountedCase
    /\ last.ok
    /\ last.rec.attempts > 0
    /\ RowNow(last.rec.id).attempts = last.rec.attempts + 1

(***************************************************************************)
(* The customers table (models/customer_db.py); a row's id is its place    *)
(* in the sequence.  Names are sequences of string pieces.                 *)
(***************************************************************************)
CustomerIds == 1..Len(customers)

get_by_email(email) ==
    IF \E i \in CustomerIds : customers[i].email = email
    THEN CHOOSE i \in CustomerIds :
            /\ customers[i].email = email
            /\ \A j \in CustomerIds : customers[j].email = email => i <= j
    ELSE NoCustomer

PhoneMatches(phone) ==
    {i \in CustomerIds : StripNonDigits(customers[i].phone) = StripNonDigits(phone)}

get_by_phone(phone) ==
    IF PhoneMatches(phone) = {} THEN NoCustomer
    ELSE CHOOSE i \in PhoneMatches(phone) : \A j \in PhoneMatches(phone) : i <= j

\* Customer.get_or_create: the customer found by email, else by phone
Existing(email, phone) ==
    LET e == IF email # "" THEN get_by_email(email) ELSE NoCustomer
    IN  IF e # NoCustomer THEN e ELSE get_by_phone(phone)

UpdatedCustomer_KeepsName(c, name, email, phone, address) ==
    [c EXCEPT !.address = IF address # "" THEN address ELSE c.address,
              !.email = IF email # "" THEN email ELSE c.email,
              !.phone = phone]

UpdatedCustomer(c, name, email, phone, address) ==
    [c EXCEPT !.name = name,
              !.address = IF address # "" THEN address ELSE c.address,
              !.email = IF email # "" THEN email ELSE c.email,
              !.phone = phone]

GetOrCreate(name, email, phone, address) ==
    LET e == Existing(email, phone)
    IN  IF e # NoCustomer
        THEN /\ customers' = [customers EXCEPT
                                ![e] = UpdatedCustomer(customers[e], name, email,
                                                       phone, address)]
             /\ last' = [Blank EXCEPT !.op = "get_or_create", !.phone = phone,
                                      !.customer = e, !.ok = FALSE,
                                      !.name = name, !.email = email,
                                      !.old_row = customers[e]]
        ELSE /\ Len(customers) < MaxCustomers
             /\ customers' = Append(customers,
                                    [id |-> Len(customers) + 1, name |-> name,
                                     email |-> email, phone |-> phone,
                                     address |-> address])
             /\ last' = [Blank EXCEPT !.op = "get_or_create", !.phone = phone,
                                      !.customer = Len(customers) + 1, !.ok = TRUE,
                                      !.name = name, !.email = email]

(***************************************************************************)
(* The customer_auth table (models/customer_auth.py)                       *)
(***************************************************************************)
KeyIds == 1..(MaxCustomers + 1)

AuthKey(k) == [len |-> AUTH_KEY_LEN, id |-> k]

\* generate_auth_key: the keys its loop can return
FreeKeys(table) == {AuthKey(k) : k \in KeyIds} \ {a.auth_key : a \in table}

NewAuth(customer_id, key) ==
    [customer_id |-> customer_id, auth_key |-> key, auth_token |-> Null,
     token_expires_at |-> Null, is_active |-> TRUE, last_login |-> Null]

HasAuth(table, customer_id) == \E a \in table : a.customer_id = customer_id

AuthOf(table, customer_id) == CHOOSE a \in table : a.customer_id = customer_id

\* get_or_create_for_customer: the table once the customer has a row
WithAuth(table, customer_id, key) ==
    IF HasAuth(table, customer_id) THEN table
    ELSE table \cup {NewAuth(customer_id, key)}

\* mutant: a token that is still valid is kept and returned again
create_auth_token_KeepsValid(a, token, t) ==
    IF a.auth_token # Null /\ t < a.token_expires_at
    THEN [a EXCEPT !.last_login = t]
    ELSE [a EXCEPT !.auth_token = token,
                   !.token_expires_at = t + TOKEN_HOURS_VALID * 60,
                   !.last_login = t]

create_auth_token(a, token, t) ==
    [a EXCEPT !.auth_token = token,
              !.token_expires_at = t + TOKEN_HOURS_VALID * 60,
              !.last_login = t]

\* mutant: logout also deactivates the record
revoke_row_Deactivates(a) ==
    [a EXCEPT !.auth_token = Null, !.token_expires_at = Null, !.is_active = FALSE]

\* CustomerAuth.revoke_token
revoke_row(a) == [a EXCEPT !.auth_token = Null, !.token_expires_at = Null]

\* mutant: a token is still accepted at its expiry instant
is_token_valid_AtExpiry(a, t) ==
    IF a.auth_token = Null \/ a.token_expires_at = Null THEN FALSE
    ELSE t <= a.token_expires_at /\ a.is_active

is_token_valid(a, t) ==
    IF a.auth_token = Null \/ a.token_expires_at = Null THEN FALSE
    ELSE t < a.token_expires_at /\ a.is_active

\* get_by_auth_token: the rows .first() can return, kept if the token is valid
\* mutant: the token is compared loosely, not for equality
get_by_auth_token_Loose(table, token, t) ==
    {a \in table : a.auth_token # Null /\ a.auth_token >= token
                      /\ a.is_active /\ is_token_valid(a, t)}

get_by_auth_token(table, token, t) ==
    {a \in table : a.auth_token = token /\ a.is_active /\ is_token_valid(a, t)}

get_by_auth_key(table, key) ==
    {a \in table : a.auth_key = key /\ a.is_active}

\* AuthService.validate_token: the customers it can return
ValidateToken(table, token, t) ==
    IF token = EmptyToken THEN {NoCustomer}
    ELSE IF get_by_auth_token(table, token, t) = {} THEN {NoCustomer}
    ELSE {a.customer_id : a \in get_by_auth_token(table, token, t)}

\* AuthService.validate_auth_key: the customers it can return
ValidateAuthKey(table, key) ==
    IF key.len = 0 \/ key.len # AUTH_KEY_LEN THEN {NoCustomer}
    ELSE IF get_by_auth_key(table, key) = {} THEN {NoCustomer}
    ELSE {a.customer_id : a \in get_by_auth_key(table, key)}

(***************************************************************************)
(* Inputs of the token service                                             *)
(***************************************************************************)
NameInputs == {<<"Asha">>}
CustomerPhoneInputs == {PhoneA, TEST_PHONE}
TokenInputs == EmptyToken..(MaxTokens + 1)
KeyInputs == {NoKey, [len |-> AUTH_KEY_LEN - 1, id |-> 1]} \cup {AuthKey(k) : k \in KeyIds}

OtpUnchanged == UNCHANGED <<otps, issued, appointments, inflight>>

(***************************************************************************)
(* Customer.get_or_create, as the booking forms of routes/main.py call it  *)
(***************************************************************************)
get_or_create ==
    /\ \E name \in NameInputs, phone \in CustomerPhoneInputs :
          GetOrCreate(name, "", phone, "")
    /\ OtpUnchanged
    /\ UNCHANGED <<auths, nextToken, now, ticks>>

(***************************************************************************)
(* AuthService.authenticate_after_otp: its first statement calls           *)
(* Customer.get_all_by_phone, which class Customer does not define; the    *)
(* AttributeError is caught by the handler, which rolls back and returns   *)
(* (None, message).                                                        *)
(***************************************************************************)
authenticate_after_otp ==
    /\ \E phone \in CustomerPhoneInputs :
          last' = [Blank EXCEPT !.op = "authenticate_after_otp", !.phone = phone,
                                !.customer = NoCustomer, !.token = Null,
                                !.msg = MsgAuthError, !.at = now]
    /\ OtpUnchanged
    /\ UNCHANGED <<customers, auths, nextToken, now, ticks>>

(***************************************************************************)
(* AuthService.refresh_token                                               *)
(***************************************************************************)
refresh_token ==
    /\ nextToken <= MaxTokens
    /\ \E c \in CustomerIds :
          \E key \in (IF HasAuth(auths, c) THEN {NoKey} ELSE FreeKeys(auths)) :
             LET table == WithAuth(auths, c, key)
                 a == AuthOf(table, c)
                 b == create_auth_token(a, nextToken, now)
             IN  /\ auths' = (table \ {a}) \cup {b}
                 /\ nextToken' = IF b.auth_token = nextToken THEN nextToken + 1
                                 ELSE nextToken
                 /\ last' = [Blank EXCEPT !.op = "refresh_token", !.customer = c,
                                          !.token = b.auth_token, !.ok = TRUE,
                                          !.old = a.auth_token]
    /\ OtpUnchanged
    /\ UNCHANGED <<customers, now, ticks>>

(***************************************************************************)
(* AuthService.revoke_token                                                *)
(***************************************************************************)
revoke_token ==
    /\ \E c \in CustomerIds :
          /\ auths' = IF HasAuth(auths, c)
                      THEN (auths \ {AuthOf(auths, c)}) \cup {revoke_row(AuthOf(auths, c))}
                      ELSE auths
          /\ last' = [Blank EXCEPT !.op = "revoke_token", !.customer = c,
                                   !.ok = HasAuth(auths, c),
                                   !.old = IF HasAuth(auths, c)
                                           THEN AuthOf(auths, c).auth_token ELSE Null]
    /\ OtpUnchanged
    /\ UNCHANGED <<customers, nextToken, now, ticks>>

(***************************************************************************)
(* AuthService.validate_token and AuthService.validate_auth_key            *)
(***************************************************************************)
validate_token ==
    /\ \E token \in TokenInputs :
          \E c \in ValidateToken(auths, token, now) :
             last' = [Blank EXCEPT !.op = "validate_token", !.token = token,
                                   !.customer = c, !.ok = c # NoCustomer,
                                   !.at = now]
    /\ OtpUnchanged
    /\ UNCHANGED <<customers, auths, nextToken, now, ticks>>

validate_auth_key ==
    /\ \E key \in KeyInputs :
          \E c \in ValidateAuthKey(auths, key) :
             last' = [Blank EXCEPT !.op = "validate_auth_key", !.key = key,
                                   !.customer = c, !.ok = c # NoCustomer]
    /\ OtpUnchanged
    /\ UNCHANGED <<customers, auths, nextToken, now, ticks>>

TickAuth == Tick(AuthTickSteps)

NextAuth ==
    \/ get_or_create
    \/ authenticate_after_otp
    \/ refresh_token
    \/ revoke_token
    \/ validate_token
    \/ validate_auth_key
    \/ TickAuth

SpecAuth == Init /\ [][NextAuth]_vars

(***************************************************************************)
(* Properties of the token service                                         *)
(***************************************************************************)
\* the placeholder name of a first-time user: "User " and the last 4 characters
PlaceholderName(phone) == <<"User ">> \o SubSeq(phone, Len(phone) - 3, Len(phone))

\* C6: the token returned by authenticate_after_otp is accepted by
\* validate_token, for the returned customer, right after it was issued, and
\* after revoke_token for a customer validate_token accepts no token as his.
C6_TokenValidUntilRevoked ==
    /\ (last.op = "authenticate_after_otp" /\ last.at = now)
         => /\ last.customer # NoCustomer
            /\ last.token # Null
            /\ ValidateToken(auths, last.token, now) = {last.customer}
    /\ last.op = "revoke_token"
         => \A t \in TokenInputs : last.customer \notin ValidateToken(auths, t, now)

\* C7: validate_token accepts at most one token value per customer, and
\* every issuance of a token makes the token the customer held before fail
\* validation while the new one is accepted.
C7_AtMostOneToken ==
    \A c \in CustomerIds :
        Cardinality({t \in TokenInputs : c \in ValidateToken(auths, t, now)}) <= 1

C7_OneActiveToken ==
    /\ []C7_AtMostOneToken
    /\ [][(/\ IsCall
           /\ last'.op \in {"refresh_token", "authenticate_after_otp"}
           /\ last'.customer # NoCustomer
           /\ last'.token # Null)
          => /\ ValidateToken(auths', last'.token, now') = {last'.customer}
             /\ last'.old # Null
                  => ValidateToken(auths', last'.old, now') = {NoCustomer}]_vars

\* C7 witness: a token is issued to a customer who holds an unexpired one
C7_Witness ==
    /\ last.op = "refresh_token"
    /\ last.old # Null
    /\ now < TOKEN_HOURS_VALID * 60
    /\ ValidateToken(auths, last.old, now) = {NoCustomer}
    /\ ValidateToken(auths, last.token, now) = {last.customer}

\* C8: validate_token(t) returns a customer only if an active row stores
\* exactly t and the time of the call is strictly before the row's
\* token_expires_at, and then it returns that row's customer; for an empty
\* token and when no such row exists it returns none.
C8_ValidateToken ==
    last.op = "validate_token" =>
        LET rows == {a \in auths : /\ a.auth_token = last.token
                                   /\ a.is_active
                                   /\ a.token_expires_at # Null
                                   /\ last.at < a.token_expires_at}
        IN  /\ last.customer # NoCustomer
                 => \E a \in rows : a.customer_id = last.customer
            /\ (last.token = EmptyToken \/ rows = {}) => last.customer = NoCustomer

\* C8 witness: a stored token is presented at the instant it expires
C8_Witness ==
    /\ last.op = "validate_token"
    /\ last.customer = NoCustomer
    /\ \E a \in auths : a.auth_token = last.token /\ last.at = a.token_expires_at

\* C9: every customer's auth_key validates to that customer in every state,
\* with or without a live token, and no call changes the auth_key of an
\* existing record.
C9_KeyValidates ==
    \A a \in auths : ValidateAuthKey(auths, a.auth_key) = {a.customer_id}

C9_AuthKeyStable ==
    /\ []C9_KeyValidates
    /\ [][\A a \in auths :
             \E b \in auths' : b.customer_id = a.customer_id
                               /\ b.auth_key = a.auth_key]_vars

\* C9 witness: the auth key is accepted after the token was revoked
C9_Witness ==
    /\ last.op = "validate_auth_key"
    /\ last.customer # NoCustomer
    /\ \E a \in auths : /\ a.auth_key = last.key
                        /\ a.customer_id = last.customer
                        /\ a.auth_token = Null
                        /\ a.last_login # Null

\* C10: authenticate_after_otp returns a customer and a newly minted token;
\* for a phone no customer has, it creates exactly one customer, named by
\* the placeholder, and returns it; for a phone of exactly one customer it
\* returns that customer and creates none.
C10_LoginCreatesOrReuses ==
    [][(IsCall /\ last'.op = "authenticate_after_otp")
       => /\ last'.customer # NoCustomer
          /\ last'.token # Null
          /\ last'.token \notin {a.auth_token : a \in auths}
          /\ PhoneMatches(last'.phone) = {}
               => /\ Len(customers') = Len(customers) + 1
                  /\ last'.customer = Len(customers')
                  /\ customers'[Len(customers')].name = PlaceholderName(last'.phone)
          /\ Cardinality(PhoneMatches(last'.phone)) = 1
               => /\ customers' = customers
                  /\ last'.customer \in PhoneMatches(last'.phone)]_vars

(***************************************************************************)
(* AuthService.get_customer_from_request: a request carries an             *)
(* Authorization header (scheme and token), the X-Auth-Token and           *)
(* X-Auth-Key headers and the token and auth_key parameters; an absent     *)
(* source is the empty value, which the code's truth tests skip.           *)
(***************************************************************************)
RequestTokenInputs == {EmptyToken, 1, 2}
RequestKeyInputs == {NoKey, AuthKey(1), AuthKey(2)}
AuthorizationInputs ==
    {NoAuthorization, [scheme |-> "Basic", token |-> 1]}
        \cup {[scheme |-> "Bearer", token |-> t] : t \in RequestTokenInputs}
\* the sources a request fills in
FilledSources(req) ==
    {i \in 1..5 : \/ i = 1 /\ req.authorization # NoAuthorization
                  \/ i = 2 /\ req.x_auth_token # EmptyToken
                  \/ i = 3 /\ req.x_auth_key # NoKey
                  \/ i = 4 /\ req.token # EmptyToken
                  \/ i = 5 /\ req.auth_key # NoKey}

RequestInputs ==
    {req \in [authorization : AuthorizationInputs,
              x_auth_token : RequestTokenInputs,
              x_auth_key : RequestKeyInputs, token : RequestTokenInputs,
              auth_key : RequestKeyInputs] :
        Cardinality(FilledSources(req)) <= MaxSources}

\* mutant: the headers are tried until one validates
get_customer_from_request_headers_FirstValid(table, req, t) ==
    LET bearer == IF req.authorization.scheme = "Bearer"
                  THEN ValidateToken(table, req.authorization.token, t)
                  ELSE {NoCustomer}
        x_token == IF req.x_auth_token # EmptyToken
                   THEN ValidateToken(table, req.x_auth_token, t)
                   ELSE {NoCustomer}
        x_key == IF req.x_auth_key # NoKey
                 THEN ValidateAuthKey(table, req.x_auth_key) ELSE {NoCustomer}
    IN  IF bearer # {NoCustomer} THEN bearer
        ELSE IF x_token # {NoCustomer} THEN x_token
        ELSE x_key

get_customer_from_request_headers(table, req, t) ==
    IF req.authorization.scheme = "Bearer"
    THEN ValidateToken(table, req.authorization.token, t)
    ELSE IF req.x_auth_token # EmptyToken
    THEN ValidateToken(table, req.x_auth_token, t)
    ELSE IF req.x_auth_key # NoKey
    THEN ValidateAuthKey(table, req.x_auth_key)
    ELSE {NoCustomer}

get_customer_from_request_params(table, req, t) ==
    IF req.token # EmptyToken THEN ValidateToken(table, req.token, t)
    ELSE IF req.auth_key # NoKey THEN ValidateAuthKey(table, req.auth_key)
    ELSE {NoCustomer}

get_customer_from_request_ParamsFirst(table, req, t) ==
    LET p == get_customer_from_request_params(table, req, t)
    IN  (p \ {NoCustomer})
            \cup (IF NoCustomer \in p
                  THEN get_customer_from_request_headers(table, req, t) ELSE {})

get_customer_from_request(table, req, t) ==
    LET h == get_customer_from_request_headers(table, req, t)
    IN  (h \ {NoCustomer})
            \cup (IF NoCustomer \in h
                  THEN get_customer_from_request_params(table, req, t) ELSE {})

extract_customer_from_request ==
    /\ \E req \in RequestInputs :
          \E c \in get_customer_from_request(auths, req, now) :
             last' = [Blank EXCEPT !.op = "get_customer_from_request",
                                   !.req = req, !.customer = c,
                                   !.ok = c # NoCustomer]
    /\ OtpUnchanged
    /\ UNCHANGED <<customers, auths, nextToken, now, ticks>>

NextRequest ==
    \/ get_or_create
    \/ refresh_token
    \/ extract_customer_from_request

SpecRequest == Init /\ [][NextRequest]_vars

(***************************************************************************)
(* Properties of the credential extraction                                 *)
(***************************************************************************)
\* what each source of the last request validates to, in the documented
\* order; {} when the source is absent, {NoCustomer} when it is invalid
SourceCustomers ==
    LET r == last.req
    IN  << IF r.authorization.scheme = "Bearer"
           THEN ValidateToken(auths, r.authorization.token, now) ELSE {},
           IF r.x_auth_token # EmptyToken
           THEN ValidateToken(auths, r.x_auth_token, now) ELSE {},
           IF r.x_auth_key # NoKey
           THEN ValidateAuthKey(auths, r.x_auth_key) ELSE {},
           IF r.token # EmptyToken
           THEN ValidateToken(auths, r.token, now) ELSE {},
           IF r.auth_key # NoKey
           THEN ValidateAuthKey(auths, r.auth_key) ELSE {} >>

HeaderSources == {1, 2, 3}
ParamSources == {4, 5}

SourceValid(i) == SourceCustomers[i] # {} /\ NoCustomer \notin SourceCustomers[i]

PENDING == "pending"
CONFIRMED == "confirmed"
IN_PROGRESS == "in_progress"
COMPLETED == "completed"
CANCELLED == "cancelled"
RESCHEDULED == "rescheduled"

WORK_START_HOUR == 9
WORK_END_HOUR == 18
DEFAULT_DURATION == 2
MINUTES_PER_DAY == 24 * 60

today == now \div MINUTES_PER_DAY

\* datetime.strptime(text, '%Y-%m-%d').date() and
\* datetime.strptime(text, '%H:%M').time(): a value, or ValueError
ParsesAsDate(f) == f.kind = "date"
ParsesAsTime(f) == f.kind = "time"
ParseDate(f) == f.value
ParseTime(f) == Time(f.value \div 60, f.value % 60)

\* time.strftime('%H:%M')
DigitChars == <<"0", "1", "2", "3", "4", "5", "6", "7", "8", "9">>
TwoDigits(n) == <<DigitChars[(n \div 10) + 1], DigitChars[(n % 10) + 1]>>
strftime(t) == TwoDigits(t.hour) \o <<":">> \o TwoDigits(t.minute)

NextAptId(store) ==
    IF store = {} THEN 1
    ELSE 1 + (CHOOSE m \in {a.id : a \in store} : \A a \in store : a.id <= m)

NewAppointment(id, d, t, status) ==
    [id |-> id, appointment_date |-> d, appointment_time |-> t,
     status |-> status, technician_notes |-> <<>>, completed_at |-> Null,
     cancelled_at |-> Null]

\* mutant: a completed or cancelled appointment is not confirmed again
confirm_KeepsFinal(a) ==
    IF a.status \in {COMPLETED, CANCELLED} THEN a ELSE [a EXCEPT !.status = CONFIRMED]

confirm(a) == [a EXCEPT !.status = CONFIRMED]

start_service(a) == [a EXCEPT !.status = IN_PROGRESS]

complete(a, technician_notes, t) ==
    [a EXCEPT !.status = COMPLETED, !.completed_at = t,
              !.technician_notes =
                  IF technician_notes # <<>> THEN technician_notes ELSE @]

cancel(a, reason, t) ==
    [a EXCEPT !.status = CANCELLED, !.cancelled_at = t,
              !.technician_notes =
                  IF reason # <<>> THEN <<"Cancelled: ">> \o reason ELSE @]

reschedule(a, new_date, new_time, reason) ==
    [a EXCEPT !.appointment_date = new_date, !.appointment_time = new_time,
              !.status = RESCHEDULED,
              !.technician_notes =
                  IF reason # <<>> THEN <<"Rescheduled: ">> \o reason ELSE @]

get_by_date(store, target_date) ==
    {a \in store : a.appointment_date = target_date}

\* the body of the slot loop: no appointment of the date conflicts with the
\* slot starting at current_hour
SlotAvailable_CountsCancelled(store, target_date, duration_hours, current_hour) ==
    \A apt \in get_by_date(store, target_date) :
        \/ current_hour + duration_hours <= apt.appointment_time.hour
        \/ current_hour >= apt.appointment_time.hour + duration_hours

SlotAvailable(store, target_date, duration_hours, current_hour) ==
    \A apt \in get_by_date(store, target_date) :
        \/ apt.status = CANCELLED
        \/ current_hour + duration_hours <= apt.appointment_time.hour
        \/ current_hour >= apt.appointment_time.hour + duration_hours

RECURSIVE SlotsFrom(_, _, _, _)
SlotsFrom(store, target_date, duration_hours, current_hour) ==
    IF current_hour <= WORK_END_HOUR - duration_hours
    THEN (IF SlotAvailable(store, target_date, duration_hours, current_hour)
          THEN <<Time(current_hour, 0)>> ELSE <<>>)
             \o SlotsFrom(store, target_date, duration_hours, current_hour + 1)
    ELSE <<>>

get_available_time_slots_StartsLate(store, target_date, duration_hours) ==
    SlotsFrom(store, target_date, duration_hours, WORK_START_HOUR + 1)

get_available_time_slots(store, target_date, duration_hours) ==
    SlotsFrom(store, target_date, duration_hours, WORK_START_HOUR)

MsgAptNotFound == "Appointment not found"
MsgConfirmed == "Appointment confirmed successfully"
MsgStarted == "Service started"
MsgCompleted == "Appointment completed successfully"
MsgCancelled == "Appointment cancelled"
MsgRescheduled == "Appointment rescheduled successfully"
MsgPastDate == "New appointment date must be in the future"
MsgBadDateTime == "Invalid date or time format"
MsgNoDateTime == "Please provide new date and time"
MsgInvalidAction == "Invalid action"
MsgUpdateError == "An error occurred while updating the appointment"
MsgAptCreated == "Appointment created successfully!"
MsgAptCreateError == "Error creating appointment"
MsgDateRequired == "Date parameter is required"
MsgBadDate == "Invalid date format"
MsgDateInPast == "Date must be in the future"

OthersUnchanged ==
    UNCHANGED <<otps, issued, customers, auths, nextToken, now, ticks, inflight>>

(***************************************************************************)
(* routes/admin.py create_appointment: the row is built from the form; a   *)
(* field that does not parse raises, and the handler rolls back.           *)
(***************************************************************************)
CreateAppointment(date, time, status, cap) ==
    /\ IF date.kind # "date" \/ time.kind # "time"
       THEN /\ appointments' = appointments
            /\ last' = [Blank EXCEPT !.op = "create_appointment",
                                     !.msg = MsgAptCreateError]
       ELSE /\ Cardinality(appointments) < cap
            /\ LET a == NewAppointment(NextAptId(appointments), ParseDate(date),
                                       ParseTime(time), status)
               IN  /\ appointments' = appointments \cup {a}
                   /\ last' = [Blank EXCEPT !.op = "create_appointment",
                                            !.ok = TRUE, !.apt = a.id,
                                            !.msg = MsgAptCreated]
    /\ OthersUnchanged

(***************************************************************************)
(* routes/appointments.py update: one branch per form action               *)
(***************************************************************************)
RescheduleRejectsToday(new_date) == ParseDate(new_date) <= today

RescheduleRejects(new_date) == ParseDate(new_date) < today

Update(id, action, new_date, new_time, reason, technician_notes) ==
    /\ IF ~(\E a \in appointments : a.id = id)
       THEN /\ appointments' = appointments
            /\ last' = [Blank EXCEPT !.op = "update", !.apt = id,
                                     !.action = action, !.msg = MsgAptNotFound]
       ELSE LET a == CHOOSE x \in appointments : x.id = id
                r == CASE action = "confirm" ->
                            [row |-> confirm(a), called |-> "confirm",
                             msg |-> MsgConfirmed]
                       [] action = "start" ->
                            [row |-> start_service(a), called |-> "start_service",
                             msg |-> MsgStarted]
                       [] action = "complete" ->
                            [row |-> complete(a, technician_notes, now),
                             called |-> "complete", msg |-> MsgCompleted]
                       [] action = "cancel" ->
                            [row |-> cancel(a, reason, now), called |-> "cancel",
                             msg |-> MsgCancelled]
                       [] action = "reschedule" ->
                            IF new_date.kind = "missing" \/ new_time.kind = "missing"
                            THEN [row |-> a, called |-> "", msg |-> MsgNoDateTime]
                            ELSE IF ~ParsesAsDate(new_date) \/ ~ParsesAsTime(new_time)
                            THEN [row |-> a, called |-> "", msg |-> MsgBadDateTime]
                            ELSE IF RescheduleRejects(new_date)
                            THEN [row |-> a, called |-> "", msg |-> MsgPastDate]
                            ELSE [row |-> reschedule(a, ParseDate(new_date),
                                                     ParseTime(new_time), reason),
                                  called |-> "reschedule", msg |-> MsgRescheduled]
                       [] action = "update_notes" ->
                            \* Appointment has no method update: the call
                            \* raises and the handler reports an error
                            [row |-> a, called |-> "", msg |-> MsgUpdateError]
                       [] OTHER ->
                            [row |-> a, called |-> "", msg |-> MsgInvalidAction]
            IN  /\ appointments' = (appointments \ {a}) \cup {r.row}
                /\ last' = [Blank EXCEPT !.op = "update", !.apt = id,
                                         !.action = action, !.before = a,
                                         !.new_date = new_date,
                                         !.new_time = new_time,
                                         !.reason = reason, !.called = r.called,
                                         !.ok = r.called # "", !.msg = r.msg]
    /\ OthersUnchanged

(***************************************************************************)
(* routes/appointments.py api_available_slots; duration is <<>> when the   *)
(* request has no duration argument                                        *)
(***************************************************************************)
ApiAvailableSlots(date, duration) ==
    /\ LET d == IF duration = <<>> THEN DEFAULT_DURATION ELSE duration[1]
           err == IF date.kind = "missing" THEN MsgDateRequired
                  ELSE IF ~ParsesAsDate(date) THEN MsgBadDate
                  ELSE IF ParseDate(date) < today THEN MsgDateInPast
                  ELSE ""
           slots == IF err = "" 
                    THEN get_available_time_slots(appointments, ParseDate(date), d)
                    ELSE <<>>
       IN  last' = [Blank EXCEPT !.op = "api_available_slots", !.date = date,
                                 !.duration = duration, !.ok = err = "",
                                 !.msg = err, !.slots = slots,
                                 !.slots_data =
                                     [i \in DOMAIN slots |-> strftime(slots[i])]]
    /\ UNCHANGED appointments
    /\ OthersUnchanged

(***************************************************************************)
(* Slot queries: the admin creates appointments for today, some not on the *)
(* hour, appointments are cancelled, and the slot API is asked about       *)
(* yesterday, today and tomorrow.                                          *)
(***************************************************************************)
SlotTimeInputs == {TimeField(10, 0), TimeField(10, 30), TimeField(14, 0)}
SlotDateInputs == {MalformedField, DateField(0)}
QueryDateInputs == {MissingField, MalformedField, DateField(-1), DateField(0),
                    DateField(1)}
DurationInputs == {<<>>} \cup {<<d>> : d \in 0..MaxDuration}
AptIdInputs == 1..MaxAppointments

create_appointment ==
    \E date \in SlotDateInputs, time \in SlotTimeInputs :
        CreateAppointment(date, time, PENDING, MaxAppointments)

cancel_appointment ==
    \E id \in AptIdInputs :
        Update(id, "cancel", MissingField, MissingField, <<>>, <<>>)

api_available_slots ==
    \E date \in QueryDateInputs, duration \in DurationInputs :
        ApiAvailableSlots(date, duration)

NextSlots == create_appointment \/ cancel_appointment \/ api_available_slots

SpecSlots == Init /\ [][NextSlots]_vars

(***************************************************************************)
(* Properties of the slot computation                                      *)
(***************************************************************************)
Range(seq) == {seq[i] : i \in DOMAIN seq}

Minutes(t) == t.hour * 60 + t.minute

\* [s, s + d) and [t, t + d) overlap, all in minutes
Overlap(s, t, d) == ~(s + d <= t \/ s >= t + d)

\* the appointments that can block a slot of a date
Blocking(store, day) == {a \in get_by_date(store, day) : a.status # CANCELLED}

LastDuration == IF last.duration = <<>> THEN DEFAULT_DURATION ELSE last.duration[1]

SlotQueryAnswered == last.op = "api_available_slots" /\ last.ok

\* C12: each start time returned by available_slots(date, d) gives an
\* interval [s, s+d) that overlaps [t, t+d) for no non-cancelled appointment
\* of that date, also for appointment times that are not on the hour.
C12_NoOverlap ==
    SlotQueryAnswered =>
        \A i \in DOMAIN last.slots :
            \A a \in Blocking(appointments, ParseDate(last.date)) :
                ~Overlap(Minutes(last.slots[i]), Minutes(a.appointment_time),
                         LastDuration * 60)

\* the whole-hour starts inside the working window that overlap no
\* non-cancelled appointment of the day
FreeHours(store, day, d) ==
    {h \in WORK_START_HOUR..(WORK_END_HOUR - d) :
        \A a \in Blocking(store, day) :
            ~Overlap(h * 60, Minutes(a.appointment_time), d * 60)}

HourAligned(store, day) ==
    \A a \in get_by_date(store, day) : a.appointment_time.minute = 0

\* C13: for d in 1..9 and hour-aligned appointments, available_slots(date, d)
\* is the ascending list of exactly the whole hours h with 9 <= h and
\* h + d <= 18 that overlap no non-cancelled appointment of the date; with
\* one booking at 10:00 and d = 2 it is 12:00, 13:00, 14:00, 15:00, 16:00.
C13_ExactSlots ==
    (/\ SlotQueryAnswered
     /\ LastDuration \in 1..9
     /\ HourAligned(appointments, ParseDate(last.date)))
        => /\ \A i \in 1..(Len(last.slots) - 1) :
                 Minutes(last.slots[i]) < Minutes(last.slots[i + 1])
           /\ Range(last.slots) =
                 {Time(h, 0) :
                     h \in FreeHours(appointments, ParseDate(last.date), LastDuration)}
           /\ (/\ LastDuration = 2
               /\ {a.appointment_time :
                      a \in Blocking(appointments, ParseDate(last.date))}
                     = {Time(10, 0)})
                 => last.slots_data =
                       << <<"1", "2", ":", "0", "0">>, <<"1", "3", ":", "0", "0">>,
                          <<"1", "4", ":", "0", "0">>, <<"1", "5", ":", "0", "0">>,
                          <<"1", "6", ":", "0", "0">> >>

C13_Witness ==
    /\ SlotQueryAnswered
    /\ LastDuration = 2
    /\ \E a \in appointments :
          /\ Blocking(appointments, ParseDate(last.date)) = {a}
          /\ a.appointment_time = Time(10, 0)
    /\ Len(last.slots) = 5
    /\ last.slots[1] = Time(12, 0)

\* the table as it was before the last update call
BeforeUpdate ==
    {a \in appointments : a.id # last.apt} \cup {last.before}

WithoutUpdated == {a \in appointments : a.id # last.apt}

Cancelled == last.op = "update" /\ last.action = "cancel" /\ last.called = "cancel"

QueryDays == {0, 1}

\* a start that is missing from the slots of the table only because of the
\* appointment of the last call
BlockedOnlyByLast(day, d, h) ==
    /\ Time(h, 0) \notin Range(get_available_time_slots(BeforeUpdate, day, d))
    /\ Time(h, 0) \in Range(get_available_time_slots(WithoutUpdated, day, d))

\* C14: a start time missing from available_slots(date, d) only because of
\* one appointment is in available_slots(date, d) again after cancel() of
\* that appointment.
C14_CancelFreesSlot ==
    Cancelled =>
        \A day \in QueryDays, d \in 0..MaxDuration :
            \A h \in WORK_START_HOUR..WORK_END_HOUR :
                BlockedOnlyByLast(day, d, h)
                    => Time(h, 0) \in
                          Range(get_available_time_slots(appointments, day, d))

C14_Witness ==
    /\ Cancelled
    /\ last.before.status # CANCELLED
    /\ \E d \in 1..MaxDuration, h \in WORK_START_HOUR..WORK_END_HOUR :
          /\ BlockedOnlyByLast(last.before.appointment_date, d, h)
          /\ Time(h, 0) \in
                Range(get_available_time_slots(appointments,
                                               last.before.appointment_date, d))

(***************************************************************************)
(* Customer.get_or_create as the booking forms call it, with the name,     *)
(* e-mail and phone of the form                                            *)
(***************************************************************************)
PhoneDashed == <<"9", "8", "7", "6", "5", "-", "4", "3", "2", "1", "0">>
FormNameInputs == {<<"Asha">>, <<"Bina">>}
FormEmailInputs == {"", "asha@example.com"}
FormPhoneInputs == {PhoneA, PhoneDashed, TEST_PHONE}

get_or_create_form ==
    /\ \E name \in FormNameInputs, email \in FormEmailInputs,
          phone \in FormPhoneInputs :
          GetOrCreate(name, email, phone, "")
    /\ OtpUnchanged
    /\ UNCHANGED <<auths, nextToken, now, ticks>>

NextCustomers == get_or_create_form

SpecCustomers == Init /\ [][NextCustomers]_vars

HeadInputs ==
    {<<"9", "1", "2", "3", "1">>, <<"9", "8", "7", "6", "5">>,
     <<"9", "1", "9", "1", "9">>, <<"1", "9", "1", "9", "1">>,
     <<"0", "0", "0", "0", "0">>, <<"6", "0", "0", "0", "1">>}
TailInputs ==
    {<<"8", "7", "5", "6", "2">>, <<"4", "3", "2", "1", "0">>,
     <<"9", "1", "9", "1", "9">>, <<"1", "9", "1", "9", "1">>,
     <<"0", "0", "0", "0", "0">>, <<"9", "9", "9", "9", "9">>}
TenDigitInputs == {h \o t : h \in HeadInputs, t \in TailInputs}
PrefixInputs == {<<>>, <<"9", "1">>, <<"+", "9", "1">>}

InitNormalize ==
    /\ otps = {}
    /\ issued = [n \in Phones |-> [prev |-> "", cur |-> ""]]
    /\ customers = <<>>
    /\ auths = {}
    /\ nextToken = 1
    /\ now = 0
    /\ ticks = 0
    /\ appointments = {}
    /\ inflight = [p \in Requests |-> Idle]
    /\ \E d \in TenDigitInputs, prefix \in PrefixInputs :
          last = [Blank EXCEPT !.op = "input", !.phone = prefix \o d]

normalize ==
    /\ last.op = "input"
    /\ last' = [last EXCEPT !.op = "normalize_phone_number",
                            !.out = normalize_phone_number(last.phone),
                            !.ok = validate_phone_number(last.phone)]
    /\ UNCHANGED <<otps, issued, customers, auths, nextToken, now, ticks,
                   appointments, inflight>>

NextNormalize == normalize

SpecNormalize == InitNormalize /\ [][NextNormalize]_vars

\* C17: for every string d of exactly 10 digits, normalize_phone_number
\* returns d for "91" + d, for "+91" + d and for d itself, also when d
\* begins with 91.
C17_CountryCodeStripped ==
    last.op = "normalize_phone_number" =>
        \A d \in TenDigitInputs :
            last.phone \in {d, <<"9", "1">> \o d, <<"+", "9", "1">> \o d}
                => last.out = d

C17_Witness ==
    /\ last.op = "normalize_phone_number"
    /\ StartsWith(last.out, <<"9", "1">>)
    /\ last.phone = <<"+", "9", "1">> \o last.out
    /\ Len(last.out) = PHONE_LEN

(***************************************************************************)
(* OTP requests with phone numbers that are not valid                      *)
(***************************************************************************)
RequestPhoneInputs ==
    {PhoneA, BadPhone, <<"0">> \o PhoneA, <<"9", "2">> \o PhoneA,
     <<"+", "9", "1">> \o BadPhone, <<"a", "b", "c">>,
     <<"9", "1">> \o PhoneA \o <<"7">>}

request_otp ==
    /\ \E phone \in RequestPhoneInputs, code \in GeneratedCodes, sms \in BOOLEAN :
          SendOtp("send_otp", phone, code, sms)
    /\ AuthUnchanged
    /\ UNCHANGED <<now, ticks>>

NextRequestOtp == request_otp \/ TickOTP

SpecRequestOtp == Init /\ [][NextRequestOtp]_vars

\* C18: request_otp with a phone whose normalized form is not exactly 10
\* digits returns failure with the invalid-format message, creates and
\* deletes no OTP record and dispatches no SMS.
C18_InvalidPhoneRejected ==
    [][(/\ IsCall
        /\ IsIssue(last'.op)
        /\ Len(last'.phone) # PHONE_LEN)
          => /\ ~last'.ok
             /\ last'.msg = MsgBadPhone
             /\ otps' = otps
             /\ ~last'.dispatched]_vars

\* a rejected request while an OTP is live
C18_Witness ==
    /\ IsIssue(last.op)
    /\ Len(last.phone) # PHONE_LEN
    /\ last.msg = MsgBadPhone
    /\ otps # {}

(***************************************************************************)
(* Lifecycle of an appointment: created by the admin form, then            *)
(* completed, rescheduled and cancelled through the update route.          *)
(***************************************************************************)
ReasonInputs == {<<>>, <<"customer request">>}
NotesInputs == {<<>>, <<"replaced filter">>}
RescheduleDateInputs ==
    {MissingField, MalformedField, DateField(-1), DateField(0), DateField(1)}
RescheduleTimeInputs == {MissingField, TimeField(13, 30)}
LifecycleIdInputs == 1..MaxLifecycle

book_appointment ==
    CreateAppointment(DateField(0), TimeField(10, 0), PENDING, MaxLifecycle)

update_complete ==
    \E id \in LifecycleIdInputs, notes \in NotesInputs :
        Update(id, "complete", MissingField, MissingField, <<>>, notes)

update_cancel ==
    \E id \in LifecycleIdInputs, reason \in ReasonInputs :
        Update(id, "cancel", MissingField, MissingField, reason, <<>>)

update_reschedule ==
    \E id \in LifecycleIdInputs, new_date \in RescheduleDateInputs,
       new_time \in RescheduleTimeInputs, reason \in ReasonInputs :
        Update(id, "reschedule", new_date, new_time, reason, <<>>)

NextLifecycle ==
    \/ book_appointment
    \/ update_complete
    \/ update_cancel
    \/ update_reschedule

SpecLifecycle == Init /\ [][NextLifecycle]_vars

(***************************************************************************)
(* Properties of cancel and reschedule                                     *)
(***************************************************************************)
\* the appointment of the last update call, as it is now
AptNow == CHOOSE a \in appointments : a.id = last.apt

EndsWith(s, p) == Len(s) >= Len(p) /\ SubSeq(s, Len(s) - Len(p) + 1, Len(s)) = p

CancelWithReasonOnNotes ==
    /\ last.op = "update"
    /\ last.action = "cancel"
    /\ last.called = "cancel"
    /\ last.reason # <<>>
    /\ last.before.technician_notes # <<>>

\* C19: cancel(reason) with a non-empty reason on an appointment that
\* already has technician_notes appends the reason: afterwards
\* technician_notes holds the previous notes followed by the reason, status
\* is CANCELLED and cancelled_at is stamped.
C19_CancelAppendsReason ==
    CancelWithReasonOnNotes =>
        /\ AptNow.status = CANCELLED
        /\ AptNow.cancelled_at # Null
        /\ StartsWith(AptNow.technician_notes, last.before.technician_notes)
        /\ EndsWith(AptNow.technician_notes, last.reason)
        /\ Len(AptNow.technician_notes)
              >= Len(last.before.technician_notes) + Len(last.reason)

RescheduleRequest ==
    /\ last.op = "update"
    /\ last.action = "reschedule"
    /\ last.before # NoApt
    /\ last.new_date.kind = "date"
    /\ last.new_time.kind = "time"

\* C20: a reschedule request whose new date is before today is rejected
\* before Appointment.reschedule is invoked and leaves date, time, status
\* and technician_notes unchanged; one whose new date is today or later
\* sets the date and the time and sets status RESCHEDULED.
C20_RescheduleDateChecked ==
    RescheduleRequest =>
        /\ last.new_date.value < today
              => /\ last.called = ""
                 /\ ~last.ok
                 /\ AptNow.appointment_date = last.before.appointment_date
                 /\ AptNow.appointment_time = last.before.appointment_time
                 /\ AptNow.status = last.before.status
                 /\ AptNow.technician_notes = last.before.technician_notes
        /\ last.new_date.value >= today
              => /\ last.called = "reschedule"
                 /\ AptNow.appointment_date = last.new_date.value
                 /\ Minutes(AptNow.appointment_time) = last.new_time.value
                 /\ AptNow.status = RESCHEDULED

\* a request for yesterday on an appointment that has notes
C20_Witness ==
    /\ RescheduleRequest
    /\ last.new_date.value < today
    /\ last.called = ""
    /\ last.before.technician_notes # <<>>
    /\ AptNow = last.before

(***************************************************************************)
(* OTP requests whose SMS dispatch fails                                   *)
(***************************************************************************)
\* C21: when the SMS dispatch fails during request_otp the call returns
\* failure and the OTP store equals the store before the call: the prior
\* OTP of the phone is still there and no new record persists.
C21_FailedDispatchRolledBack ==
    [][(/\ IsCall
        /\ IsIssue(last'.op)
        /\ last'.dispatched
        /\ last'.msg = MsgSendFailed)
          => (~last'.ok /\ otps' = otps)]_vars

(***************************************************************************)
(* Concurrent verify requests.  Each request runs OTP.verify_otp in its    *)
(* own session: the query loads the row into the session, the rest of the  *)
(* method works on the loaded object, and the commit writes the attributes *)
(* it changed to the row with that id.  Nothing locks the row between the  *)
(* query and the commit.                                                   *)
(***************************************************************************)
MsgVerifyError == "Error verifying OTP"

RacePhoneInputs == {PhoneA, <<"9", "1">> \o PhoneA}
RaceCodes == {"111111", "222222"}

\* the UPDATE of the commit: the changed columns of the loaded row r, with
\* the values of the object new, written to the row of that id
WriteBack(store, r, new) ==
    {IF x.id = r.id
     THEN [x EXCEPT !.attempts = new.attempts,
                    !.is_verified = IF new.is_verified # r.is_verified
                                    THEN new.is_verified ELSE @]
     ELSE x : x \in store}

verify_otp_query(p) ==
    /\ inflight[p].pc = "idle"
    /\ \E phone \in RacePhoneInputs, code \in RaceCodes :
          LET n == normalize_phone_number(phone)
              req == [Idle EXCEPT !.op = "verify_otp", !.phone = n, !.code = code]
          IN  IF Unverified(otps, n) = {}
              THEN /\ inflight' = [inflight EXCEPT ![p] =
                                      [req EXCEPT !.pc = "done", !.msg = MsgNotFound]]
                   /\ last' = [Blank EXCEPT !.op = "verify_otp", !.phone = n,
                                            !.code = code, !.at = now,
                                            !.msg = MsgNotFound]
              ELSE /\ \E r \in Unverified(otps, n) :
                         inflight' = [inflight EXCEPT ![p] =
                                         [req EXCEPT !.pc = "loaded", !.rec = r]]
                   /\ last' = last
    /\ UNCHANGED <<otps, issued, customers, auths, nextToken, now, ticks,
                   appointments>>

verify_otp_commit(p) ==
    /\ inflight[p].pc = "loaded"
    /\ LET r == inflight[p].rec
           out == OTP_verify({r}, r, inflight[p].code, now)
           new == CHOOSE x \in out.store : TRUE
           stale == new # r /\ ~(\E x \in otps : x.id = r.id)
           ok == out.ok /\ ~stale
           msg == IF stale THEN MsgVerifyError ELSE out.msg
       IN  /\ otps' = IF new # r THEN WriteBack(otps, r, new) ELSE otps
           /\ inflight' = [inflight EXCEPT ![p] =
                              [@ EXCEPT !.pc = "done", !.ok = ok, !.msg = msg]]
           /\ last' = [Blank EXCEPT !.op = "verify_otp", !.phone = inflight[p].phone,
                                    !.code = inflight[p].code, !.at = now,
                                    !.rec = r, !.ok = ok, !.msg = msg]
    /\ UNCHANGED <<issued, customers, auths, nextToken, now, ticks, appointments>>

race_send_otp ==
    /\ \E code \in GeneratedCodes : SendOtp("send_otp", PhoneA, code, TRUE)
    /\ AuthUnchanged
    /\ UNCHANGED <<now, ticks>>

race_verify_query == \E p \in Requests : verify_otp_query(p)

race_verify_commit == \E p \in Requests : verify_otp_commit(p)

NextVerifyRace == race_send_otp \/ race_verify_query \/ race_verify_commit

SpecVerifyRace == Init /\ [][NextVerifyRace]_vars

\* C22: of two concurrent verify requests that carry the correct code for
\* the same unverified OTP record, at most one returns success, however
\* their queries and commits interleave.
C22_AtMostOneSuccess ==
    \A p, q \in Requests :
        (/\ p # q
         /\ inflight[p].pc = "done" /\ inflight[q].pc = "done"
         /\ inflight[p].rec # NoRec
         /\ inflight[p].rec = inflight[q].rec
         /\ inflight[p].code = inflight[p].rec.otp_code
         /\ inflight[q].code = inflight[q].rec.otp_code)
            => ~(inflight[p].ok /\ inflight[q].ok)

(***************************************************************************)
(* Tokens of several customers                                             *)
(***************************************************************************)
IssuedTokens == 1..(nextToken - 1)

\* C23: validate_token(t) returns only the customer to whom t was issued,
\* by that customer's most recent issuance: a token is first accepted in
\* the step that issues it, for the customer it is issued to; it is never
\* accepted for another customer; and once it is rejected (revoked,
\* overwritten or expired) it is never accepted again.
C23_TokenOfOneCustomer ==
    [][\A t \in 1..MaxTokens :
          LET before == ValidateToken(auths, t, now)
              after == ValidateToken(auths', t, now')
          IN  /\ Cardinality(after) = 1
              /\ (t \in IssuedTokens /\ before = {NoCustomer})
                    => after = {NoCustomer}
              /\ (before # {NoCustomer} /\ after # {NoCustomer})
                    => after = before
              /\ (t \notin IssuedTokens /\ after # {NoCustomer})
                    => /\ last'.op = "refresh_token"
                       /\ last'.token = t
                       /\ after = {last'.customer}
              /\ after # {NoCustomer}
                    => \A a \in auths' :
                          a.customer_id \in after => a.auth_token = t]_vars

\* a token that was issued is rejected while another customer's is accepted
C23_Witness ==
    /\ last.op = "validate_token"
    /\ last.token \in IssuedTokens
    /\ last.customer = NoCustomer
    /\ \E t \in IssuedTokens : ValidateToken(auths, t, now) # {NoCustomer}
    /\ Cardinality({a.customer_id : a \in auths}) > 1

(***************************************************************************)
(* Bookings: the public forms of routes/main.py, the admin form and the    *)
(* reschedule action of the update route all write the appointments table. *)
(***************************************************************************)
MAX_ADVANCE_DAYS == 90
QUOTATION_DEFAULT_TIME == Time(10, 0)

MsgRequiredFields == "Please fill in all required fields"
MsgBadDateOrTime == "Invalid date or time format"
MsgDateNotFuture == "Appointment date must be in the future"
MsgDateTooFar == "Appointment date cannot be more than 90 days in the future"
MsgBooked == "Service appointment scheduled successfully"
MsgQuotationSubmitted == "Quotation request submitted successfully"

\* the customers table after Customer.get_or_create(name, email, phone, address)
CustomersAfterGetOrCreate(name, email, phone, address) ==
    LET e == Existing(email, phone)
    IN  IF e # NoCustomer
        THEN [customers EXCEPT
                ![e] = UpdatedCustomer(customers[e], name, email, phone, address)]
        ELSE Append(customers,
                    [id |-> Len(customers) + 1, name |-> name, email |-> email,
                     phone |-> phone, address |-> address])

BookingUnchanged == UNCHANGED <<otps, issued, auths, nextToken, now, ticks, inflight>>

\* routes/main.py get_started_post
GetStartedPost(name, email, phone, appointment_date, appointment_time) ==
    LET err == IF appointment_date.kind = "missing" \/ appointment_time.kind = "missing"
               THEN MsgRequiredFields
               ELSE IF ~ParsesAsDate(appointment_date) \/ ~ParsesAsTime(appointment_time)
               THEN MsgBadDateOrTime
               ELSE IF ParseDate(appointment_date) < today
               THEN MsgDateNotFuture
               ELSE IF ParseDate(appointment_date) > today + MAX_ADVANCE_DAYS
               THEN MsgDateTooFar
               ELSE ""
    IN  /\ IF err # ""
           THEN /\ UNCHANGED <<customers, appointments>>
                /\ last' = [Blank EXCEPT !.op = "get_started_post",
                                         !.date = appointment_date, !.msg = err]
           ELSE /\ Cardinality(appointments) < MaxAppointments
                /\ Len(CustomersAfterGetOrCreate(name, email, phone, "")) <= MaxCustomers
                /\ customers' = CustomersAfterGetOrCreate(name, email, phone, "")
                /\ LET a == NewAppointment(NextAptId(appointments),
                                           ParseDate(appointment_date),
                                           ParseTime(appointment_time), PENDING)
                   IN  /\ appointments' = appointments \cup {a}
                       /\ last' = [Blank EXCEPT !.op = "get_started_post",
                                                !.date = appointment_date,
                                                !.ok = TRUE, !.apt = a.id,
                                                !.msg = MsgBooked]
        /\ BookingUnchanged

\* routes/main.py request_quotation_post: date and time are optional, a
\* missing, malformed or past date becomes today and a missing or malformed
\* time becomes 10:00
RequestQuotationPost(name, email, phone, preferred_date, preferred_time) ==
    LET parsed_date == IF ParsesAsDate(preferred_date)
                          /\ ParseDate(preferred_date) >= today
                       THEN ParseDate(preferred_date) ELSE today
        parsed_time == IF ParsesAsTime(preferred_time)
                       THEN ParseTime(preferred_time) ELSE QUOTATION_DEFAULT_TIME
        a == NewAppointment(NextAptId(appointments), parsed_date, parsed_time,
                            PENDING)
    IN  /\ Cardinality(appointments) < MaxAppointments
        /\ Len(CustomersAfterGetOrCreate(name, email, phone, "")) <= MaxCustomers
        /\ customers' = CustomersAfterGetOrCreate(name, email, phone, "")
        /\ appointments' = appointments \cup {a}
        /\ last' = [Blank EXCEPT !.op = "request_quotation_post",
                                 !.date = preferred_date, !.ok = TRUE,
                                 !.apt = a.id, !.msg = MsgQuotationSubmitted]
        /\ BookingUnchanged

BookingDateInputs ==
    {MissingField, MalformedField, DateField(-1), DateField(0), DateField(1),
     DateField(MAX_ADVANCE_DAYS + 1)}
BookingTimeInputs == {MissingField, TimeField(10, 0), TimeField(11, 0)}
AdminDateInputs == {MalformedField, DateField(0), DateField(1)}
AdminTimeInputs == {TimeField(10, 0), TimeField(14, 0)}
MoveDateInputs == {DateField(0), DateField(1)}
MoveTimeInputs == {TimeField(10, 0), TimeField(11, 0)}

get_started_post ==
    \E d \in BookingDateInputs, t \in BookingTimeInputs :
        GetStartedPost(<<"Asha">>, "asha@example.com", PhoneA, d, t)

request_quotation_post ==
    \E d \in BookingDateInputs, t \in BookingTimeInputs :
        RequestQuotationPost(<<"Asha">>, "asha@example.com", PhoneA, d, t)

admin_create_appointment ==
    \E d \in AdminDateInputs, t \in AdminTimeInputs :
        CreateAppointment(d, t, PENDING, MaxAppointments)

reschedule_appointment ==
    \E id \in AptIdInputs, d \in MoveDateInputs, t \in MoveTimeInputs :
        Update(id, "reschedule", d, t, <<>>, <<>>)

NextBooking ==
    \/ get_started_post
    \/ request_quotation_post
    \/ admin_create_appointment
    \/ reschedule_appointment

SpecBooking == Init /\ [][NextBooking]_vars

\* C24: after any sequence of customer bookings, admin creations and
\* reschedules no two non-cancelled appointments of one date have
\* overlapping [time, time + 2h) intervals.
C24_NoDoubleBooking ==
    \A a, b \in appointments :
        (/\ a.id # b.id
         /\ a.status # CANCELLED /\ b.status # CANCELLED
         /\ a.appointment_date = b.appointment_date)
            => ~Overlap(Minutes(a.appointment_time), Minutes(b.appointment_time),
                        DEFAULT_DURATION * 60)

(***************************************************************************)
(* Uniqueness of phone numbers in the customers table                      *)
(***************************************************************************)
\* C25: starting from an empty customers table, after any sequence of
\* get_or_create calls no two customers have the same digits-only phone
\* number, also after a call whose e-mail matches one customer and whose
\* phone matches another.
C25_PhoneUnique ==
    \A i, j \in CustomerIds :
        i # j => StripNonDigits(customers[i].phone) # StripNonDigits(customers[j].phone)

(***************************************************************************)
(* routes/otp.py /verify: OTPService.verify_otp, and on success            *)
(* AuthService.authenticate_after_otp.  The verification is committed by   *)
(* OTP.verify_otp before the authentication starts, so the rollback of a   *)
(* failed authentication does not undo it.                                 *)
(***************************************************************************)
MsgMissingParameters == "Phone number and OTP code are required"

\* AuthService.authenticate_after_otp(phone_number) as the route sees it:
\* (customer, token), or (None, message) from the exception handler, which
\* is where the missing Customer.get_all_by_phone always leads
AuthenticateAfterOtp(phone) ==
    [customer |-> NoCustomer, token |-> Null, msg |-> MsgAuthError]

\* mutant: the route tests the second element of the pair only
verify_route_authenticated_TokenOnly(auth) == auth.token # Null \/ auth.msg # ""

\* the route's test "if customer and token"; the second element of the pair
\* is the token or the error message
verify_route_authenticated(auth) ==
    auth.customer # NoCustomer /\ (auth.token # Null \/ auth.msg # "")

VerifyRoute(phone_number, otp_code) ==
    LET n == normalize_phone_number(phone_number)
        res == [Blank EXCEPT !.op = "verify_route", !.phone = n,
                             !.code = otp_code, !.at = now]
    IN  IF phone_number = <<>> \/ otp_code = ""
        THEN /\ last' = [res EXCEPT !.msg = MsgMissingParameters]
             /\ otps' = otps
        ELSE IF Unverified(otps, n) = {}
        THEN /\ last' = [res EXCEPT !.msg = MsgNotFound, !.called = "verify_otp"]
             /\ otps' = otps
        ELSE \E r \in Unverified(otps, n) :
                LET out == OTP_verify(otps, r, otp_code, now)
                    auth == AuthenticateAfterOtp(phone_number)
                IN  /\ otps' = out.store
                    /\ last' =
                         IF ~out.ok
                         THEN [res EXCEPT !.msg = out.msg, !.rec = r,
                                          !.called = "verify_otp"]
                         ELSE IF verify_route_authenticated(auth)
                         THEN [res EXCEPT !.ok = TRUE, !.rec = r,
                                          !.customer = auth.customer,
                                          !.token = auth.token,
                                          !.called = "authenticate_after_otp"]
                         ELSE [res EXCEPT !.msg = auth.msg, !.rec = r,
                                          !.called = "authenticate_after_otp"]

VerifyPhoneInputs == PhoneInputs \cup {<<>>}
VerifyCodeInputs == Codes \cup {""}

verify_route ==
    /\ \E phone \in VerifyPhoneInputs, code \in VerifyCodeInputs :
          VerifyRoute(phone, code)
    /\ AuthUnchanged
    /\ UNCHANGED <<issued, now, ticks>>

NextVerifyRoute == send_otp \/ verify_route \/ TickOTP

SpecVerifyRoute == Init /\ [][NextVerifyRoute]_vars

\* the /verify request whose OTP check succeeded and whose authentication
\* did not return a customer
ConsumedWithoutToken(l) ==
    /\ l.op = "verify_route"
    /\ l.called = "authenticate_after_otp"
    /\ l.customer = NoCustomer

\* C26: when verify_otp succeeds and authenticate_after_otp then fails, the
\* /verify request ends with an error and no token, no token is stored, the
\* OTP record stays marked verified, and presenting the same code again is
\* answered as for a phone without a pending OTP.
C26_ConsumedOtpNoToken ==
    [][/\ (IsCall /\ ConsumedWithoutToken(last'))
            => /\ ~last'.ok
               /\ last'.token = Null
               /\ last'.msg = MsgAuthError
               /\ auths' = auths
               /\ nextToken' = nextToken
               /\ \E r \in otps' : r.id = last'.rec.id /\ r.is_verified
               /\ Unverified(otps', last'.phone) = {}
       /\ (/\ IsCall
           /\ ConsumedWithoutToken(last)
           /\ last'.op = "verify_route"
           /\ last'.phone = last.phone
           /\ last'.code = last.code)
            => /\ ~last'.ok
               /\ last'.msg = MsgNotFound
               /\ otps' = otps]_vars

\* a consumed OTP while no token exists
C26_Witness ==
    /\ ConsumedWithoutToken(last)
    /\ ~last.ok
    /\ auths = {}
    /\ \E r \in otps : r.id = last.rec.id /\ r.is_verified /\ r.otp_code = last.code

(***************************************************************************)
(* Concurrent request_otp calls.  OTP.create_new_otp is a DELETE of the    *)
(* rows of the phone followed by an INSERT and the commit, in one          *)
(* transaction per request and with no lock or unique constraint of its    *)
(* own; the database of SQLALCHEMY_DATABASE_URI is whatever DATABASE_URL   *)
(* names.  The DELETE of a transaction removes the rows that are           *)
(* committed when it runs, and takes effect with the commit.               *)
(***************************************************************************)
RaceSendPhoneInputs == {PhoneA, <<"9", "1">> \o PhoneA, BadPhone}

request_otp_delete(p) ==
    /\ inflight[p].pc = "idle"
    /\ \E phone \in RaceSendPhoneInputs, code \in GeneratedCodes :
          LET n == normalize_phone_number(phone)
              req == [Idle EXCEPT !.op = "send_otp", !.phone = n, !.code = code]
          IN  IF ~validate_phone_number(phone)
              THEN /\ inflight' = [inflight EXCEPT ![p] =
                                      [req EXCEPT !.pc = "done", !.msg = MsgBadPhone]]
                   /\ last' = [Blank EXCEPT !.op = "send_otp", !.phone = n,
                                            !.at = now, !.msg = MsgBadPhone]
              ELSE /\ inflight' = [inflight EXCEPT ![p] =
                                      [req EXCEPT !.pc = "deleted",
                                                  !.deleted = {r.id : r \in PriorOtps(otps, n)}]]
                   /\ last' = last
    /\ UNCHANGED <<otps, issued, customers, auths, nextToken, now, ticks,
                   appointments>>

request_otp_insert(p) ==
    /\ inflight[p].pc = "deleted"
    /\ LET n == inflight[p].phone
           kept == {r \in otps : r.id \notin inflight[p].deleted}
           new == NewOTP(NextId(otps), n, inflight[p].code, now)
       IN  /\ otps' = kept \cup {new}
           /\ issued' = [issued EXCEPT ![n] = [prev |-> issued[n].cur,
                                               cur |-> inflight[p].code]]
           /\ inflight' = [inflight EXCEPT ![p] =
                              [@ EXCEPT !.pc = "done", !.ok = TRUE, !.rec = new,
                                        !.msg = MsgSent]]
           /\ last' = [Blank EXCEPT !.op = "send_otp", !.phone = n, !.at = now,
                                    !.code = inflight[p].code, !.ok = TRUE,
                                    !.dispatched = TRUE, !.msg = MsgSent,
                                    !.rec = new]
    /\ UNCHANGED <<customers, auths, nextToken, now, ticks, appointments>>

race_request_delete == \E p \in Requests : request_otp_delete(p)

race_request_insert == \E p \in Requests : request_otp_insert(p)

NextRequestRace == race_request_delete \/ race_request_insert \/ TickOTP

SpecRequestRace == Init /\ [][NextRequestRace]_vars

\* C27: when two request_otp calls for the same phone run concurrently,
\* with their deletes and inserts interleaved in any order, the store holds
\* at most one unverified OTP record for that phone once both have finished.
C27_OneLiveOtpAfterRace ==
    (\A p \in Requests : inflight[p].pc = "done")
        => \A n \in Phones : Cardinality(Unverified(otps, n)) <= 1

(***************************************************************************)
(* Shadowing by a header credential that is present and invalid            *)
(***************************************************************************)
\* source i is the first one present among the sources S of the last request
FirstPresent(i, S) ==
    /\ i \in S
    /\ SourceCustomers[i] # {}
    /\ \A k \in S : k < i => SourceCustomers[k] = {}

SourceInvalid(i) == SourceCustomers[i] = {NoCustomer}

C28_ParamWitness ==
    /\ last.op = "get_customer_from_request"
    /\ \E i \in HeaderSources, j \in ParamSources :
          /\ FirstPresent(i, HeaderSources) /\ SourceInvalid(i)
          /\ SourceValid(j)
          /\ last.customer \in SourceCustomers[j]

(***************************************************************************)
(* Status transitions: every action of the update route on an appointment  *)
(* in every status.                                                        *)
(***************************************************************************)
TransitionActions == {"confirm", "start", "complete", "cancel", "reschedule"}
TransitionDateInputs == {MissingField, DateField(-1), DateField(1)}

update_transition ==
    \E id \in LifecycleIdInputs, action \in TransitionActions,
       new_date \in TransitionDateInputs :
        Update(id, action,
               IF action = "reschedule" THEN new_date ELSE MissingField,
               IF action = "reschedule" THEN TimeField(13, 30) ELSE MissingField,
               <<>>, <<>>)

NextTransitions == book_appointment \/ update_transition

SpecTransitions == Init /\ [][NextTransitions]_vars

\* the status each method of the model class sets
TargetStatus(called) ==
    CASE called = "confirm" -> CONFIRMED
      [] called = "start_service" -> IN_PROGRESS
      [] called = "complete" -> COMPLETED
      [] called = "cancel" -> CANCELLED
      [] called = "reschedule" -> RESCHEDULED

\* the method the update route calls for an action, given the form alone
MethodOf(action) ==
    CASE action = "confirm" -> "confirm"
      [] action = "start" -> "start_service"
      [] action = "complete" -> "complete"
      [] action = "cancel" -> "cancel"
      [] action = "reschedule" -> "reschedule"

\* C29: confirm, start_service, complete, cancel and reschedule are enabled
\* in every status and set their target status whatever the current one is;
\* confirm on a COMPLETED or CANCELLED appointment yields CONFIRMED.
C29_NoTransitionTable ==
    [][(/\ IsCall
        /\ last'.op = "update"
        /\ last'.action \in TransitionActions
        /\ \E a \in appointments : a.id = last'.apt)
          => LET a == CHOOSE x \in appointments : x.id = last'.apt
                 b == CHOOSE x \in appointments' : x.id = last'.apt
                 accepted == last'.action = "reschedule"
                                => /\ ParsesAsDate(last'.new_date)
                                   /\ ParsesAsTime(last'.new_time)
                                   /\ ParseDate(last'.new_date) >= today
             IN  IF accepted
                 THEN /\ last'.called = MethodOf(last'.action)
                      /\ b.status = TargetStatus(last'.called)
                 ELSE /\ last'.called = ""
                      /\ b = a]_vars

\* confirm has acted on a completed or cancelled appointment
C29_Witness ==
    /\ last.op = "update"
    /\ last.action = "confirm"
    /\ last.before.status \in {COMPLETED, CANCELLED}
    /\ AptNow.status = CONFIRMED

(***************************************************************************)
(* routes/admin.py update_appointment: the form overwrites date, time and  *)
(* status of the row; completed_at and cancelled_at are not form fields.   *)
(* A field that does not parse raises, and the handler rolls back.         *)
(***************************************************************************)
MsgAptUpdated == "Appointment updated successfully!"
MsgAptUpdateError == "Error updating appointment"

Statuses == {PENDING, CONFIRMED, IN_PROGRESS, COMPLETED, CANCELLED, RESCHEDULED}

AdminUpdateAppointment(id, date, time, status) ==
    /\ IF ~(\E a \in appointments : a.id = id)
       THEN /\ appointments' = appointments
            /\ last' = [Blank EXCEPT !.op = "update_appointment", !.apt = id,
                                     !.msg = MsgAptNotFound]
       ELSE LET a == CHOOSE x \in appointments : x.id = id
            IN  IF ~ParsesAsDate(date) \/ ~ParsesAsTime(time)
                THEN /\ appointments' = appointments
                     /\ last' = [Blank EXCEPT !.op = "update_appointment",
                                              !.apt = id, !.before = a,
                                              !.msg = MsgAptUpdateError]
                ELSE /\ appointments' =
                          (appointments \ {a}) \cup
                              {[a EXCEPT !.appointment_date = ParseDate(date),
                                         !.appointment_time = ParseTime(time),
                                         !.status = status]}
                     /\ last' = [Blank EXCEPT !.op = "update_appointment",
                                              !.apt = id, !.before = a,
                                              !.ok = TRUE, !.msg = MsgAptUpdated]
    /\ OthersUnchanged

admin_create_with_status ==
    \E d \in AdminDateInputs, status \in Statuses :
        CreateAppointment(d, TimeField(10, 0), status, MaxLifecycle)

admin_update_appointment ==
    \E id \in LifecycleIdInputs, d \in AdminDateInputs, status \in Statuses :
        AdminUpdateAppointment(id, d, TimeField(10, 0), status)

NextAdmin ==
    \/ admin_create_with_status
    \/ admin_update_appointment
    \/ update_transition
    \/ TickOTP

SpecAdmin == Init /\ [][NextAdmin]_vars

\* C30: in every state reachable through the lifecycle operations and the
\* admin create and update forms, a COMPLETED appointment has completed_at
\* set, a CANCELLED one has cancelled_at set, and completed_at or
\* cancelled_at is set only while the appointment is in the matching status.
C30_TimestampsMatchStatus ==
    \A a \in appointments :
        /\ a.status = COMPLETED <=> a.completed_at # Null
        /\ a.status = CANCELLED <=> a.cancelled_at # Null

============================================================================
